---------------------------- MODULE Spec2Model ----------------------------
(***************************************************************************)
(* Model of the PHYS-339 PID temperature controller client:                *)
(*   src/Python interface/pid_controller_api.py   (class pid_api)          *)
(*   src/PIDtemperatureControllerV1_0/Python interface/pid_controller.py   *)
(*                                                                         *)
(* Strings are Python strings of ASCII characters.  A floating point        *)
(* number is a record of sign, digits and power of ten (see Float), one    *)
(* record to a double; integers are integers, of the model checker's       *)
(* range.                                                                  *)
(* An exception is the name of its Python class, "" meaning none.          *)
(***************************************************************************)
EXTENDS Integers, Sequences, FiniteSets, TLC

VARIABLES
    api,          \* the attributes of the pid_api instance (pid_controller.api)
    fw_mode,      \* operating mode held by the controller firmware
    rx,           \* reply lines produced by the controller and not yet read
    unanswered,   \* frames written minus reply lines consumed, this instance
    disconnected, \* disconnect() has been called on this instance
    last,         \* record of the last completed call
    gui,          \* the widgets of the pid_controller window
    stack         \* the handlers of pid_controller in progress, innermost last

vars == <<api, fw_mode, rx, unanswered, disconnected, last, gui, stack>>

(***************************************************************************)
(* Bounds of the model.                                                    *)
(***************************************************************************)
\* most frames that may stand unanswered on one instance
MaxUnanswered == 2
\* most bytes a read that times out has received before the deadline
MaxCut == 1
\* most handlers of the window in progress at once, one inside the other
MaxDepth == 3

(***************************************************************************)
(* Python string helpers.                                                  *)
(***************************************************************************)
Min(a, b) == IF a < b THEN a ELSE b

Char(s, i) == SubSeq(s, i, i)

IsDigit(ch) == ch \in {"0", "1", "2", "3", "4", "5", "6", "7", "8", "9"}

DigitVal(ch) ==
    CASE ch = "0" -> 0 [] ch = "1" -> 1 [] ch = "2" -> 2 [] ch = "3" -> 3
      [] ch = "4" -> 4 [] ch = "5" -> 5 [] ch = "6" -> 6 [] ch = "7" -> 7
      [] ch = "8" -> 8 [] ch = "9" -> 9

\* a group of digits: int() and float() allow one underscore between two
\* digits, never first, last or doubled
IsDigits(s) ==
    /\ Len(s) > 0
    /\ IsDigit(Char(s, 1))
    /\ IsDigit(Char(s, Len(s)))
    /\ \A i \in 1..Len(s) :
          IF IsDigit(Char(s, i)) THEN TRUE
          ELSE Char(s, i) = "_" /\ IsDigit(Char(s, i - 1)) /\ IsDigit(Char(s, i + 1))

\* the digits of a group, its underscores dropped
RECURSIVE Digits(_)
Digits(s) ==
    IF \A i \in 1..Len(s) : Char(s, i) # "_" THEN s
    ELSE IF Len(s) = 1 THEN ""
    ELSE Digits(SubSeq(s, 1, Len(s) \div 2))
             \o Digits(SubSeq(s, Len(s) \div 2 + 1, Len(s)))

RECURSIVE NatVal(_)
NatVal(s) ==
    IF Len(s) = 0 THEN 0
    ELSE NatVal(SubSeq(s, 1, Len(s) - 1)) * 10 + DigitVal(Char(s, Len(s)))

\* position of the first occurrence of ch in s at or after i, 0 when none
Find(s, ch, i) ==
    IF \A j \in i..Len(s) : Char(s, j) # ch THEN 0
    ELSE CHOOSE j \in i..Len(s) :
             Char(s, j) = ch /\ \A l \in i..(j - 1) : Char(s, l) # ch

\* str.split(sep) for a one-character separator
RECURSIVE Split(_, _)
Split(s, sep) ==
    IF Find(s, sep, 1) = 0 THEN <<s>>
    ELSE <<SubSeq(s, 1, Find(s, sep, 1) - 1)>>
             \o Split(SubSeq(s, Find(s, sep, 1) + 1, Len(s)), sep)

\* str.strip('\r\n'): drops leading and trailing CR and LF characters
Strip(s) ==
    IF \A i \in 1..Len(s) : Char(s, i) \in {"\r", "\n"} THEN ""
    ELSE SubSeq(s,
                CHOOSE i \in 1..Len(s) :
                    /\ Char(s, i) \notin {"\r", "\n"}
                    /\ \A j \in 1..(i - 1) : Char(s, j) \in {"\r", "\n"},
                CHOOSE i \in 1..Len(s) :
                    /\ Char(s, i) \notin {"\r", "\n"}
                    /\ \A j \in (i + 1)..Len(s) : Char(s, j) \in {"\r", "\n"})

\* the characters int() and float() ignore around a literal in an ASCII
\* string: blank, tab, line feed, vertical tab, form feed, carriage return
IsSpace(ch) == ch \in {" ", "\t", "\n", "", "\f", "\r"}

\* the literal int() and float() read: s without the white space at its ends
StripWs(s) ==
    IF \A i \in 1..Len(s) : IsSpace(Char(s, i)) THEN ""
    ELSE SubSeq(s,
                CHOOSE i \in 1..Len(s) :
                    ~IsSpace(Char(s, i)) /\ \A j \in 1..(i - 1) : IsSpace(Char(s, j)),
                CHOOSE i \in 1..Len(s) :
                    ~IsSpace(Char(s, i))
                    /\ \A j \in (i + 1)..Len(s) : IsSpace(Char(s, j)))

Unsigned(s) ==
    IF Len(s) > 0 /\ Char(s, 1) \in {"+", "-"} THEN SubSeq(s, 2, Len(s)) ELSE s

Sign(s) == IF Len(s) > 0 /\ Char(s, 1) = "-" THEN -1 ELSE 1

Abs(n) == IF n < 0 THEN -n ELSE n

\* n characters "0"
RECURSIVE Zeros(_)
Zeros(n) ==
    IF n <= 0 THEN "" ELSE IF n = 1 THEN "0"
    ELSE Zeros(n \div 2) \o Zeros(n - n \div 2)

LStripZeros(s) ==
    IF \A i \in 1..Len(s) : Char(s, i) = "0" THEN ""
    ELSE SubSeq(s,
                CHOOSE i \in 1..Len(s) :
                    Char(s, i) # "0" /\ \A j \in 1..(i - 1) : Char(s, j) = "0",
                Len(s))

RStripZeros(s) ==
    IF \A i \in 1..Len(s) : Char(s, i) = "0" THEN ""
    ELSE SubSeq(s, 1,
                CHOOSE i \in 1..Len(s) :
                    Char(s, i) # "0" /\ \A j \in (i + 1)..Len(s) : Char(s, j) = "0")

\* int(s): [ok |-> the literal is accepted, v |-> its value]; white space
\* around the literal is ignored
py_int(s) ==
    LET t == StripWs(s)
        u == Unsigned(t)
    IN  IF IsDigits(u) THEN [ok |-> TRUE, v |-> Sign(t) * NatVal(LStripZeros(Digits(u)))]
        ELSE [ok |-> FALSE, v |-> 0]

\* str.lower() on the letters of a float literal
RECURSIVE Lower(_)
Lower(s) ==
    IF Len(s) = 0 THEN ""
    ELSE IF Len(s) = 1
    THEN CASE s = "A" -> "a" [] s = "E" -> "e" [] s = "F" -> "f" [] s = "I" -> "i"
           [] s = "N" -> "n" [] s = "T" -> "t" [] s = "Y" -> "y" [] OTHER -> s
    ELSE Lower(SubSeq(s, 1, Len(s) \div 2)) \o Lower(SubSeq(s, Len(s) \div 2 + 1, Len(s)))

(***************************************************************************)
(* Python floats.  A float is a record: k = "num" is the number            *)
(* s * m * 10^x, with sign s and digits m, in the shortest decimal that     *)
(* reads back as the same double (the digits of repr), m without a leading  *)
(* or a final zero; zero is m = "0", x = 0, and keeps its sign.             *)
(* k = "inf" is s * infinity; k = "nan" is not-a-number.                    *)
(***************************************************************************)
Inf(s) == [k |-> "inf", s |-> s, m |-> "0", x |-> 0]

NaN == [k |-> "nan", s |-> 1, m |-> "0", x |-> 0]

\* s * d * 10^x for a string of digits d, the zeros at its ends dropped
Decimal(s, d, x) ==
    IF RStripZeros(d) = "" THEN [k |-> "num", s |-> s, m |-> "0", x |-> 0]
    ELSE [k |-> "num", s |-> s, m |-> LStripZeros(RStripZeros(d)),
          x |-> x + Len(d) - Len(RStripZeros(d))]

\* the float literal m * 10^x of at most 15 digits, between 1e-307 and 1e308
Float(s, m, x) == Decimal(s, ToString(m), x)

\* the float n / 10
Tenths(n) == Float(IF n < 0 THEN -1 ELSE 1, Abs(n), -1)

IsZero(a) == a.k = "num" /\ a.m = "0"

\* 0.d > 0.e for digit strings d, e that are of one length or without
\* trailing zeros
DigitsGt(d, e) ==
    IF \A i \in 1..Min(Len(d), Len(e)) : Char(d, i) = Char(e, i)
    THEN Len(d) > Len(e)
    ELSE \E i \in 1..Min(Len(d), Len(e)) :
             /\ \A j \in 1..(i - 1) : Char(d, j) = Char(e, j)
             /\ DigitVal(Char(d, i)) > DigitVal(Char(e, i))

\* position of the decimal point: |a| = 0.m * 10^Point(a)
Point(a) == Len(a.m) + a.x

\* |a| > |b| for floats that are not nan
MagGt(a, b) ==
    IF a.k = "inf" THEN b.k # "inf"
    ELSE IF b.k = "inf" THEN FALSE
    ELSE IF IsZero(a) THEN FALSE
    ELSE IF IsZero(b) THEN TRUE
    ELSE IF Point(a) # Point(b) THEN Point(a) > Point(b)
    ELSE DigitsGt(a.m, b.m)

\* a > b
FloatGt(a, b) ==
    LET sa == IF IsZero(a) THEN 0 ELSE a.s
        sb == IF IsZero(b) THEN 0 ELSE b.s
    IN  IF a.k = "nan" \/ b.k = "nan" THEN FALSE
        ELSE IF sa # sb THEN sa > sb
        ELSE IF sa = 0 THEN FALSE
        ELSE IF sa > 0 THEN MagGt(a, b)
        ELSE MagGt(b, a)

\* a == b
FloatEq(a, b) ==
    IF a.k = "nan" \/ b.k = "nan" THEN FALSE
    ELSE IF IsZero(a) THEN IsZero(b)
    ELSE a = b

(***************************************************************************)
(* Natural numbers of any size, for the binary value of a float: a         *)
(* sequence of limbs in base 10^4, the least significant first, the last    *)
(* not zero; zero is the empty sequence.                                    *)
(***************************************************************************)
Base == 10000

\* a without its last limb when that is zero
Trim(a) == IF Len(a) > 0 /\ a[Len(a)] = 0 THEN SubSeq(a, 1, Len(a) - 1) ELSE a

\* the number written with the digits d, d without a leading zero
BigOfDigits(d) ==
    Trim([i \in 1..((Len(d) + 3) \div 4) |->
             NatVal(SubSeq(d, IF Len(d) > 4 * i THEN Len(d) - 4 * i + 1 ELSE 1,
                           Len(d) - 4 * i + 4))])

\* the digits of the limbs of a, four to a limb
RECURSIVE LimbDigits(_)
LimbDigits(a) ==
    IF Len(a) = 0 THEN ""
    ELSE IF Len(a) = 1 THEN Zeros(4 - Len(ToString(a[1]))) \o ToString(a[1])
    ELSE LimbDigits(SubSeq(a, Len(a) \div 2 + 1, Len(a)))
             \o LimbDigits(SubSeq(a, 1, Len(a) \div 2))

\* a < b
BigLt(a, b) ==
    IF Len(a) # Len(b) THEN Len(a) < Len(b)
    ELSE \E i \in 1..Len(a) :
             a[i] < b[i] /\ \A j \in (i + 1)..Len(a) : a[j] = b[j]

\* a + 1
BigInc(a) ==
    IF \A i \in 1..Len(a) : a[i] = Base - 1
    THEN [i \in 1..(Len(a) + 1) |-> IF i > Len(a) THEN 1 ELSE 0]
    ELSE [i \in 1..Len(a) |->
             IF \A j \in 1..(i - 1) : a[j] = Base - 1
             THEN (a[i] + 1) % Base ELSE a[i]]

\* a - 1 for a > 0
BigDec(a) ==
    Trim([i \in 1..Len(a) |->
             IF \A j \in 1..(i - 1) : a[j] = 0
             THEN (a[i] + Base - 1) % Base ELSE a[i]])

\* limb i of a * k without the carries between limbs, for 0 < k <= Base:
\* the low part of a[i] * k and the high part of a[i-1] * k
MulLimb(a, k, i) ==
    (IF i <= Len(a) THEN (a[i] * k) % Base ELSE 0)
        + (IF i > 1 THEN (a[i - 1] * k) \div Base ELSE 0)

\* the carry into limb i of a * k: limb i-1 overflows, or is Base - 1 and
\* takes a carry that a limb below it has passed up
MulCarry(a, k, i) ==
    IF i = 1 THEN 0
    ELSE IF MulLimb(a, k, i - 1) >= Base THEN 1
    ELSE IF MulLimb(a, k, i - 1) < Base - 1 THEN 0
    ELSE IF \E j \in 1..(i - 2) :
                /\ MulLimb(a, k, j) >= Base
                /\ \A l \in (j + 1)..(i - 2) : MulLimb(a, k, l) = Base - 1
    THEN 1 ELSE 0

\* a * k for 0 < k <= Base
MulSmall(a, k) ==
    Trim([i \in 1..(Len(a) + 1) |-> (MulLimb(a, k, i) + MulCarry(a, k, i)) % Base])

\* a * b^n, taking c factors b at a time (b^c <= Base)
RECURSIVE MulPow(_, _, _, _)
MulPow(a, b, c, n) ==
    IF Len(a) = 0 \/ n <= 0 THEN a
    ELSE IF n <= c THEN MulSmall(a, b^n)
    ELSE MulPow(MulPow(a, b, c, c * ((n \div c + 1) \div 2)), b, c,
                n - c * ((n \div c + 1) \div 2))

\* a number cut down: n is its whole part, st says that the part cut off
\* is not zero.  z / k for k a divisor of Base: limb i of the quotient is
\* made of limb i and the remainder of limb i+1.
DivSmall(z, k) ==
    IF Len(z.n) = 0 THEN z
    ELSE [n  |-> Trim([i \in 1..Len(z.n) |->
                          z.n[i] \div k
                          + (IF i < Len(z.n) THEN (z.n[i + 1] % k) * (Base \div k)
                             ELSE 0)]),
          st |-> z.st \/ z.n[1] % k # 0]

\* z / b^n, taking c factors b at a time (b^c a divisor of Base)
RECURSIVE DivPow(_, _, _, _)
DivPow(z, b, c, n) ==
    IF Len(z.n) = 0 \/ n <= 0 THEN z
    ELSE IF n <= c THEN DivSmall(z, b^n)
    ELSE DivPow(DivPow(z, b, c, c * ((n \div c + 1) \div 2)), b, c,
                n - c * ((n \div c + 1) \div 2))

\* 2^52, the least significand of 53 bits
Two52 == <<496, 2737, 5996, 4503>>

(***************************************************************************)
(* The double nearest to a decimal (IEEE 754 binary64, round to nearest,    *)
(* ties to even): q * 2^e with q < 2^53 and e >= -1074, q >= 2^52 unless    *)
(* e = -1074.                                                               *)
(***************************************************************************)
\* a power g of two, at most 1075, with 2^54 <= d * 10^x * 2^g < 2^60
\* unless it is cut at 1075 (3.32192 < log2(10))
Scale(d, x) == Min(1075, 55 - (((Len(d) + x - 1) * 332192) \div 100000))

\* z = v * 2^g cut down to its whole part, z.st saying that the part cut
\* off is not zero: halved until it is below 2^54, then v * 2^(g-1) rounded
\* to the nearest whole number q, a tie to the even one; v is near q * 2^(1-g)
RECURSIVE Fit(_, _)
Fit(z, g) ==
    IF ~BigLt(z.n, MulSmall(Two52, 4)) THEN Fit(DivSmall(z, 2), g - 1)
    ELSE [q |-> DivSmall([n  |-> IF /\ Len(z.n) > 0
                                    /\ z.n[1] % 2 = 1
                                    /\ z.st \/ z.n[1] % 4 = 3
                                 THEN BigInc(z.n) ELSE z.n,
                          st |-> FALSE], 2).n,
          e |-> 1 - g]

\* the double nearest to d * 10^x, for digits d without a leading zero and
\* 1e-324 <= d * 10^x < 1e309: d * 10^x * 2^Scale cut down to its whole
\* part, and fitted.  The result may be 2^53 * 2^e.
ToDouble(d, x) ==
    Fit(DivPow(DivPow([n  |-> MulPow(MulPow(BigOfDigits(d), 10, 4, x), 2, 13,
                                     Scale(d, x)),
                       st |-> FALSE],
                      10, 4, -x),
               2, 4, -Scale(d, x)),
        Scale(d, x))

\* the digits of t.q * 2^t.e > 0 as a decimal d * 10^x
Expand(t) ==
    [d |-> LStripZeros(LimbDigits(IF t.e >= 0 THEN MulPow(t.q, 2, 13, t.e)
                                  ELSE MulPow(t.q, 5, 5, -t.e))),
     x |-> IF t.e >= 0 THEN 0 ELSE t.e]

\* d + 1 for a string of digits d
StrInc(d) ==
    IF \A i \in 1..Len(d) : Char(d, i) = "9" THEN "1" \o Zeros(Len(d))
    ELSE LET k == CHOOSE i \in 1..Len(d) :
                      Char(d, i) # "9" /\ \A j \in (i + 1)..Len(d) : Char(d, j) = "9"
         IN  SubSeq(d, 1, k - 1) \o ToString(DigitVal(Char(d, k)) + 1)
                 \o Zeros(Len(d) - k)

\* v cut after n digits, and that plus one in the last place
Down(v, n) == SubSeq(v, 1, n) \o Zeros(Len(v) - n)

Up(v, n) == StrInc(SubSeq(v, 1, n)) \o Zeros(Len(v) - n)

\* d reads back as the double between the midpoints lo and hi, which read
\* back as that double themselves when its last bit is even
Fits(lo, d, hi, even) ==
    IF even THEN ~DigitsGt(lo, d) /\ ~DigitsGt(d, hi)
    ELSE DigitsGt(d, lo) /\ DigitsGt(hi, d)

\* the shortest digits that read back as the double v, tried with n, n+1 ..
\* digits: lo, v and hi are strings of one length, lo < v < hi.  Of two
\* that fit, the one nearer to v; of two as near, the one whose last digit
\* is even.
RECURSIVE Shortest(_, _, _, _, _)
Pick(lo, v, hi, even, n, ok_d, ok_u) ==
    IF ok_d /\ ok_u
    THEN (IF \/ DigitsGt(RStripZeros(SubSeq(v, n + 1, Len(v))), "5")
             \/ /\ RStripZeros(SubSeq(v, n + 1, Len(v))) = "5"
                /\ DigitVal(Char(v, n)) % 2 = 1
          THEN Up(v, n) ELSE Down(v, n))
    ELSE IF ok_d THEN Down(v, n)
    ELSE IF ok_u THEN Up(v, n)
    ELSE Shortest(lo, v, hi, even, n + 1)

Shortest(lo, v, hi, even, n) ==
    Pick(lo, v, hi, even, n, Fits(lo, Down(v, n), hi, even),
         Fits(lo, Up(v, n), hi, even))

\* repr's digits of a double, from the digits of the double (v) and of the
\* midpoints to its neighbours (lo, hi), n the length of the longest; the
\* three are filled with zeros on the left to length n + 1
ReprOf(s, lo, v, hi, even, n) ==
    Decimal(s, Shortest(Zeros(n + 1 - Len(lo.d)) \o lo.d,
                        Zeros(n + 1 - Len(v.d)) \o v.d,
                        Zeros(n + 1 - Len(hi.d)) \o hi.d,
                        even, n + 2 - Len(v.d)),
            hi.x)

\* repr's digits of the double q * 2^e, 0 < q < 2^53: its neighbours are
\* q - 1 and q + 1 times 2^e, the lower one half as far when q = 2^52 and
\* e > -1074.  Counted in quarters of 2^e: the double is 4q, the midpoints
\* are 4q - 2 (or 4q - 1) and 4q + 2.
Repr(s, q, e) ==
    ReprOf(s,
           Expand([q |-> IF q = Two52 /\ e > -1074 THEN BigDec(MulSmall(q, 4))
                         ELSE BigDec(BigDec(MulSmall(q, 4))),
                   e |-> e - 2]),
           Expand([q |-> MulSmall(q, 4), e |-> e - 2]),
           Expand([q |-> BigInc(BigInc(MulSmall(q, 4))), e |-> e - 2]),
           q[1] % 2 = 0,
           Len(Expand([q |-> BigInc(BigInc(MulSmall(q, 4))), e |-> e - 2]).d))

\* the float that is the double t.q * 2^t.e, t.q <= 2^53: infinity from
\* 2^1024 on
FromDouble(s, t) ==
    IF Len(t.q) = 0 THEN Decimal(s, "0", 0)
    ELSE IF t.e > 971 \/ (t.e = 971 /\ t.q = MulSmall(Two52, 2)) THEN Inf(s)
    ELSE Repr(s, IF t.q = MulSmall(Two52, 2) THEN Two52 ELSE t.q,
              IF t.q = MulSmall(Two52, 2) THEN t.e + 1 ELSE t.e)

\* float(...): the double nearest to the decimal a.  A decimal of at most
\* 15 digits between 1e-307 and 1e308 is the shortest that reads back as
\* its double (DBL_DIG = 15), so it is the float itself.
NearestTo(a) ==
    IF IsZero(a) THEN a
    ELSE IF Point(a) > 309 THEN Inf(a.s)
    ELSE IF Point(a) < -323 THEN Decimal(a.s, "0", 0)
    ELSE IF Len(a.m) <= 15 /\ Point(a) >= -306 /\ Point(a) <= 308 THEN a
    ELSE FromDouble(a.s, ToDouble(a.m, a.x))

\* float(...): the double nearest to s * d * 10^x
Nearest(s, d, x) == NearestTo(Decimal(s, d, x))

\* the exponent of a float literal; one of more than 7 digits puts the
\* value beyond every double, whatever the digits before it
ExponentOf(ex) ==
    IF Len(LStripZeros(Digits(Unsigned(ex)))) > 7 THEN Sign(ex) * 10000000
    ELSE Sign(ex) * NatVal(Digits(Unsigned(ex)))

\* float(...): the value of an accepted literal with integer digits ip,
\* fraction digits fp and exponent e
FloatValue(sg, ip, fp, e) ==
    Nearest(sg, Digits(ip) \o Digits(fp), e - Len(Digits(fp)))

\* float(...) of the unsigned literal u whose exponent mark is at position ke
\* (0: no exponent): digits with an optional point, then an optional signed
\* exponent
FloatLiteral(sg, u, ke) ==
    LET mt == IF ke = 0 THEN u ELSE SubSeq(u, 1, ke - 1)
        ex == IF ke = 0 THEN "" ELSE SubSeq(u, ke + 1, Len(u))
        k  == Find(mt, ".", 1)
        ip == IF k = 0 THEN mt ELSE SubSeq(mt, 1, k - 1)
        fp == IF k = 0 THEN "" ELSE SubSeq(mt, k + 1, Len(mt))
    IN  IF /\ Len(ip) + Len(fp) > 0
           /\ Len(ip) = 0 \/ IsDigits(ip)
           /\ Len(fp) = 0 \/ IsDigits(fp)
           /\ ke = 0 \/ IsDigits(Unsigned(ex))
        THEN [ok |-> TRUE,
              v  |-> FloatValue(sg, ip, fp, IF ke = 0 THEN 0 ELSE ExponentOf(ex))]
        ELSE [ok |-> FALSE, v |-> NaN]

\* float(s): [ok |-> the literal is accepted, v |-> its value]; white space
\* around the literal is ignored
py_float(s) ==
    LET t == StripWs(s)
        l == Lower(Unsigned(t))
    IN  IF l \in {"inf", "infinity"} THEN [ok |-> TRUE, v |-> Inf(Sign(t))]
        ELSE IF l = "nan" THEN [ok |-> TRUE, v |-> NaN]
        ELSE FloatLiteral(Sign(t), Unsigned(t), Find(l, "e", 1))

\* str(x) of a float x: the shortest literal that reads back as x
py_str_float(a) ==
    LET sg == IF a.s < 0 THEN "-" ELSE ""
        d  == a.m
        n  == Len(d)
        p  == n + a.x
        e  == ToString(Abs(p - 1))
    IN  IF a.k = "nan" THEN "nan"
        ELSE IF a.k = "inf" THEN sg \o "inf"
        ELSE IF IsZero(a) THEN sg \o "0.0"
        ELSE IF p <= -4 \/ p > 16
        THEN sg \o Char(d, 1) \o (IF n > 1 THEN "." \o SubSeq(d, 2, n) ELSE "")
                \o "e" \o (IF p < 1 THEN "-" ELSE "+") \o Zeros(2 - Len(e)) \o e
        ELSE IF p <= 0 THEN sg \o "0." \o Zeros(-p) \o d
        ELSE IF p >= n THEN sg \o d \o Zeros(p - n) \o ".0"
        ELSE sg \o SubSeq(d, 1, p) \o "." \o SubSeq(d, p + 1, n)

\* the digits q, their last four as decimals
Point4(sg, q) ==
    sg \o SubSeq(q, 1, Len(q) - 4) \o "." \o SubSeq(q, Len(q) - 3, Len(q))

\* the digits q of a number down to its fourth decimal, rounded by the
\* digits rest that follow: up when they are more than a half, or a half
\* and the last digit of q is odd
Round4(sg, q, rest) ==
    Point4(sg, IF \/ DigitsGt(rest, "5")
                  \/ rest = "5" /\ DigitVal(Char(q, Len(q))) % 2 = 1
               THEN StrInc(q) ELSE q)

\* the decimal r.d * 10^r.x with four decimals: the nearest, a tie to the
\* even digit.  Len(r.d) + r.x + 4 digits stand at or above the fourth
\* decimal.
Fixed4(sg, r) ==
    Round4(sg,
           IF Len(r.d) + r.x + 4 <= 0 THEN "00000"
           ELSE Zeros(5 - (Len(r.d) + r.x + 4))
                    \o (IF r.x >= -4 THEN r.d \o Zeros(r.x + 4)
                        ELSE SubSeq(r.d, 1, Len(r.d) + r.x + 4)),
           IF r.x >= -4 \/ Len(r.d) + r.x + 4 < 0 THEN ""
           ELSE RStripZeros(SubSeq(r.d, Len(r.d) + r.x + 5, Len(r.d))))

\* '%.4f' % x of a float x: the binary value of x with four decimals.  A
\* float below 1e11 with at most four decimals is nearer to its double
\* than half a unit of the fourth decimal, and a float below 1e-5 is below
\* 0.00005 also as a double: their own digits decide.  Of the other
\* floats, the digits of the double.
py_fmt_4f(a) ==
    IF a.k = "nan" THEN "nan"
    ELSE IF a.k = "inf" THEN (IF a.s < 0 THEN "-inf" ELSE "inf")
    ELSE Fixed4(IF a.s < 0 THEN "-" ELSE "",
                IF IsZero(a) \/ (a.x >= -4 /\ Point(a) <= 11) \/ Point(a) < -5
                THEN [d |-> a.m, x |-> a.x]
                ELSE Expand(ToDouble(a.m, a.x)))

\* str(n) and '%d' % n of an int n
py_str_int(n) == ToString(n)


(***************************************************************************)
(* The session and its transport.                                          *)
(***************************************************************************)
Modes == {"OPEN_LOOP", "CLOSED_LOOP"}

\* module constants of pid_controller_api.py
serial_left_marker  == ">"
serial_right_marker == "\n"

\* self.api before the first connect
NoApi ==
    [alive |-> FALSE, simulation |-> FALSE, serial |-> "unset",
     simulation_mode |-> "unset", temperature_limit |-> Tenths(0)]

\* Disconnected / Connected / Simulated, read off the instance's attributes
SessionState(a) ==
    IF ~a.alive THEN "NoSession"
    ELSE IF a.simulation THEN "Simulated"
    ELSE IF a.serial = "open" THEN "Connected"
    ELSE "Disconnected"

NoRet == [t |-> "none", v |-> 0]

\* what the controller and the serial line do during one call
\* ack: the controller answers a set command; line: the head line arrives
\* whole (data) before the timeout; otherwise data is what had arrived of it
NoEnv == [ack |-> FALSE, line |-> TRUE, data |-> ""]

\* the context of one call: the instance, the line, and what the call did
Call(e) ==
    [api |-> api, fw_mode |-> fw_mode, rx |-> rx, env |-> e,
     frames |-> <<>>, consumed |-> 0, timedout |-> 0, called |-> <<>>,
     line |-> "", exc |-> "", warning |-> "", ret |-> NoRet]

Raise(c, e) == [c EXCEPT !.exc = e]
Return(c, t, v) == [c EXCEPT !.ret = [t |-> t, v |-> v]]
Warn(c, text) == [c EXCEPT !.warning = text]

\* the command keyword and the arguments of a frame '>' + command + '\n'
FrameFields(frame) == Split(SubSeq(frame, 2, Len(frame) - 1), ",")
IsGetKeyword(kw) == Len(kw) >= 4 /\ SubSeq(kw, 1, 4) = "get_"

\* the controller takes one frame: it answers every query with one reply
\* line, answers a set command or not (env.ack), and set_mode switches it
Firmware(c, frame) ==
    LET f  == FrameFields(frame)
        kw == f[1]
        n  == IF IsGetKeyword(kw) \/ c.env.ack THEN 1 ELSE 0
    IN  [c EXCEPT !.rx = @ + n,
                  !.fw_mode = IF kw = "set_mode" /\ Len(f) = 2 /\ f[2] \in Modes
                              THEN f[2] ELSE @]

\* self.serial.write(data): the attribute may be missing or None, and a
\* closed port refuses to write
serial_write(c, data) ==
    IF c.api.serial \in {"unset", "None"} THEN Raise(c, "AttributeError")
    ELSE IF c.api.serial = "closed" THEN Raise(c, "PortNotOpenError")
    ELSE Firmware([c EXCEPT !.frames = Append(@, data)], data)

\* pid_api.write
write(c, raw_data) ==
    IF c.exc # "" THEN c
    ELSE serial_write([c EXCEPT !.called = Append(@, "write")],
                      serial_left_marker \o raw_data \o serial_right_marker)

\* self.serial.read_until(expected='\r\n'): the next reply line with its
\* terminator, or, when the timeout elapses first, the bytes received so far
serial_read_until(c) ==
    IF c.api.serial \in {"unset", "None"} THEN Raise(c, "AttributeError")
    ELSE IF c.api.serial = "closed" THEN Raise(c, "PortNotOpenError")
    ELSE IF c.env.line /\ c.rx > 0
    THEN [c EXCEPT !.rx = @ - 1, !.consumed = @ + 1,
                   !.line = c.env.data \o "\r\n"]
    ELSE [c EXCEPT !.timedout = @ + 1,
                   !.line = IF c.rx > 0 /\ ~c.env.line THEN c.env.data ELSE ""]

\* pid_api.read
read(c) ==
    IF c.exc # "" THEN c
    ELSE LET r == serial_read_until([c EXCEPT !.called = Append(@, "read")])
         IN  [r EXCEPT !.line = Strip(@)]

(***************************************************************************)
(* pid_api: construction and the operations, one operator per method.      *)
(* Each takes the call context and returns it as the method leaves it.     *)
(***************************************************************************)
\* __init__ whose except clause records the failure without entering
\* simulation mode
pid_api_init_no_fallback(port, temperature_limit, has_serial, open_ok) ==
    LET sim == ~has_serial \/ port = "Simulation"
    IN  [api |-> [alive |-> TRUE, simulation |-> sim,
                  serial |-> IF sim THEN "unset"
                             ELSE IF open_ok THEN "open" ELSE "None",
                  simulation_mode |-> IF port = "Simulation" THEN "OPEN_LOOP"
                                      ELSE "unset",
                  temperature_limit |-> temperature_limit],
         opened |-> ~sim, exc |-> ""]

\* pid_api.__init__(port, temperature_limit); has_serial is the truth of
\* mcphysics._serial, open_ok whether serial.Serial(...) succeeds.
\* opened records whether serial.Serial(...) was called.
pid_api_init(port, temperature_limit, has_serial, open_ok) ==
    LET a0 == [alive |-> TRUE, simulation |-> ~has_serial, serial |-> "unset",
               simulation_mode |-> "unset",
               temperature_limit |-> temperature_limit]
        a1 == IF port = "Simulation"
              THEN [a0 EXCEPT !.simulation = TRUE,
                              !.simulation_mode = "OPEN_LOOP"]
              ELSE a0
        a2 == IF ~a1.simulation
              THEN IF open_ok THEN [a1 EXCEPT !.serial = "open"]
                   ELSE [a1 EXCEPT !.serial = "None", !.simulation = TRUE]
              ELSE a1
    IN  [api |-> a2, opened |-> ~a1.simulation, exc |-> ""]

\* disconnect that leaves the port open
disconnect_no_close(c) == c

\* pid_api.disconnect
disconnect(c) ==
    IF ~c.api.simulation
    THEN IF c.api.serial \in {"open", "closed"}
         THEN [c EXCEPT !.api.serial = "closed", !.called = Append(@, "close")]
         ELSE Raise(c, "AttributeError")
    ELSE c

\* pid_api.get_dac; _n is not a name of the module
get_dac(c) ==
    IF c.api.simulation THEN Raise(c, "NameError")
    ELSE LET r == read(write(c, "get_dac"))
             n == py_int(r.line)
         IN  IF r.exc # "" THEN r
             ELSE IF n.ok THEN Return(r, "int", n.v)
             ELSE Raise(r, "ValueError")

\* pid_api.get_temperature
get_temperature(c) ==
    IF c.api.simulation THEN Raise(c, "NameError")
    ELSE LET r == read(write(c, "get_temp"))
             x == py_float(r.line)
         IN  IF r.exc # "" THEN r
             ELSE IF x.ok THEN Return(r, "float", x.v)
             ELSE Raise(r, "ValueError")

\* pid_api.get_temperature_setpoint
get_temperature_setpoint(c) ==
    IF c.api.simulation THEN Return(c, "float", Tenths(254))
    ELSE LET r == read(write(c, "get_setpoint"))
             x == py_float(r.line)
         IN  IF r.exc # "" THEN r
             ELSE IF x.ok THEN Return(r, "float", x.v)
             ELSE Raise(r, "ValueError")

\* float(raw_params[i]) for i = 0 .. n-1 in order: the values, or the first
\* exception (IndexError past the end of the list, ValueError on a field
\* that is no number)
RECURSIVE FloatFields(_, _, _)
FloatFields(raw_params, i, n) ==
    IF i > n THEN [exc |-> "", vals |-> <<>>]
    ELSE IF i > Len(raw_params) THEN [exc |-> "IndexError", vals |-> <<>>]
    ELSE LET x == py_float(raw_params[i])
         IN  IF ~x.ok THEN [exc |-> "ValueError", vals |-> <<>>]
             ELSE LET rest == FloatFields(raw_params, i + 1, n)
                  IN  [exc |-> rest.exc,
                       vals |-> IF rest.exc = "" THEN <<x.v>> \o rest.vals
                                ELSE <<>>]

\* pid_api.get_parameters
get_parameters(c) ==
    LET r == read(write(c, "get_pid"))
        p == FloatFields(Split(r.line, ","), 1, 3)
    IN  IF r.exc # "" THEN r
        ELSE IF p.exc # "" THEN Raise(r, p.exc)
        ELSE Return(r, "tuple", p.vals)

\* pid_api.get_mode
get_mode(c) ==
    IF c.api.simulation
    THEN IF c.api.simulation_mode = "unset" THEN Raise(c, "AttributeError")
         ELSE Return(c, "str", c.api.simulation_mode)
    ELSE LET r == read(write(c, "get_mode"))
         IN  IF r.exc # "" THEN r ELSE Return(r, "str", r.line)

\* set_dac without the query of the operating mode
set_dac_unguarded(c, level) ==
    IF c.api.simulation THEN c
    ELSE write(c, "set_dac, " \o py_str_int(level))

\* set_dac holding back only on the reply CLOSED_LOOP
set_dac_unless_closed(c, level) ==
    IF c.api.simulation THEN c
    ELSE LET m == get_mode(c)
         IN  IF m.exc # "" THEN m
             ELSE IF m.ret.v # "CLOSED_LOOP"
             THEN [write(m, "set_dac, " \o py_str_int(level)) EXCEPT !.ret = NoRet]
             ELSE Warn([m EXCEPT !.ret = NoRet],
                       "Doing nothing. DAC output can only be directly controlled in OPEN_LOOP mode!")

\* pid_api.set_dac
set_dac(c, level) ==
    IF c.api.simulation THEN c
    ELSE LET m == get_mode(c)
         IN  IF m.exc # "" THEN m
             ELSE IF m.ret.v = "OPEN_LOOP"
             THEN [write(m, "set_dac, " \o py_str_int(level)) EXCEPT !.ret = NoRet]
             ELSE Warn([m EXCEPT !.ret = NoRet],
                       "Doing nothing. DAC output can only be directly controlled in OPEN_LOOP mode!")

\* set_temperature_setpoint testing the truth of the limit argument rather
\* than "is None": a limit of 0 falls back to the configured limit
set_temperature_setpoint_falsy(c, T, temperature_limit) ==
    LET lim == IF temperature_limit = << >> \/ temperature_limit = <<Tenths(0)>>
               THEN c.api.temperature_limit
               ELSE temperature_limit[1]
    IN  IF FloatGt(T, lim) THEN Warn(c, "Setpoint above the limit! Doing nothing.")
        ELSE IF ~c.api.simulation
        THEN write(c, "set_setpoint," \o py_str_float(T))
        ELSE c

\* pid_api.set_temperature_setpoint; the argument temperature_limit is
\* << >> for None and <<x>> for the number x
set_temperature_setpoint(c, T, temperature_limit) ==
    LET lim == IF temperature_limit = << >> THEN c.api.temperature_limit
               ELSE temperature_limit[1]
    IN  IF FloatGt(T, lim) THEN Warn(c, "Setpoint above the limit! Doing nothing.")
        ELSE IF ~c.api.simulation
        THEN write(c, "set_setpoint," \o py_str_float(T))
        ELSE c

\* set_parameters formatting each gain with str() rather than '%.4f'
set_parameters_str(c, band, t_i, t_d) ==
    IF c.api.simulation THEN c
    ELSE write(c, "set_pid," \o py_str_float(band) \o "," \o py_str_float(t_i)
                   \o "," \o py_str_float(t_d))

\* pid_api.set_parameters
set_parameters(c, band, t_i, t_d) ==
    IF c.api.simulation THEN c
    ELSE write(c, "set_pid," \o py_fmt_4f(band) \o "," \o py_fmt_4f(t_i)
                   \o "," \o py_fmt_4f(t_d))

\* set_mode serving the simulated session before it validates the mode
set_mode_late_check(c, mode) ==
    IF c.api.simulation THEN [c EXCEPT !.api.simulation_mode = mode]
    ELSE IF mode # "OPEN_LOOP" /\ mode # "CLOSED_LOOP"
    THEN Warn(c, "Controller mode has not been changed. " \o mode
                  \o " is not a vaild mode.")
    ELSE write(c, "set_mode," \o mode)

\* pid_api.set_mode
set_mode(c, mode) ==
    IF mode # "OPEN_LOOP" /\ mode # "CLOSED_LOOP"
    THEN Warn(c, "Controller mode has not been changed. " \o mode
                  \o " is not a vaild mode.")
    ELSE IF c.api.simulation THEN [c EXCEPT !.api.simulation_mode = mode]
    ELSE write(c, "set_mode," \o mode)

\* set_period waiting for a confirmation of the command
set_period_confirmed(c, period) ==
    IF c.api.simulation THEN c
    ELSE read(write(c, "set_period," \o py_str_int(period)))

\* pid_api.set_period
set_period(c, period) ==
    IF c.api.simulation THEN c
    ELSE write(c, "set_period," \o py_str_int(period))

\* pid_api.get_period
get_period(c) ==
    LET r == read(write(c, "get_period"))
        n == py_int(r.line)
    IN  IF r.exc # "" THEN r
        ELSE IF n.ok THEN Return(r, "int", n.v)
        ELSE Raise(r, "ValueError")

\* pid_api.get_RTD_config
get_RTD_config(c) ==
    LET r == read(write(c, "get_MAX31865_config"))
    IN  IF r.exc # "" THEN r ELSE Return(r, "str", r.line)

\* get_all_variables reading temperature and time from each other's field
get_all_variables_swapped(c) ==
    LET r == read(write(c, "get_all"))
        p == FloatFields(Split(r.line, ","), 1, 8)
    IN  IF r.exc # "" THEN r
        ELSE IF p.exc # "" THEN Raise(r, p.exc)
        ELSE Return(r, "tuple", <<p.vals[2], p.vals[1]>> \o SubSeq(p.vals, 3, 8))

\* pid_api.get_all_variables
get_all_variables(c) ==
    LET r == read(write(c, "get_all"))
        p == FloatFields(Split(r.line, ","), 1, 8)
    IN  IF r.exc # "" THEN r
        ELSE IF p.exc # "" THEN Raise(r, p.exc)
        ELSE Return(r, "tuple", p.vals)

\* pid_api.get_version
get_version(c) ==
    LET r == read(write(c, "get_version"))
    IN  IF r.exc # "" THEN r ELSE Return(r, "str", r.line)

(***************************************************************************)
(* The environment: what the controller replies and what callers pass.     *)
(***************************************************************************)
\* the reply lines the controller may give to a command while in mode m
ReplyBodies(cmd, m) ==
    CASE cmd = "get_dac"      -> {"150"}
      [] cmd = "get_temp"     -> {"24.8"}
      [] cmd = "get_setpoint" -> {"24.5"}
      [] cmd = "get_pid"      -> {"10.01,0.12,53.03"}
      [] cmd = "get_mode"     -> {m}
      [] cmd = "get_period"   -> {"1000"}
      [] cmd = "get_MAX31865_config" -> {"101"}
      [] cmd = "get_all"      -> {"12000,24.8,25.0,150,1000,0.1,0.2,0.3",
                                  "12000,24.8,1125899906842624.75,150,1000,0.1,0.2,0.3",
                                  "12000,24.8"}
      [] cmd = "get_version"  -> {"PID v1.0"}
      [] OTHER                -> {"OK"}

\* a line left in the receive buffer by earlier calls: the answer to a set
\* command, a whole reply to a query (a mode, a temperature), or the rest of
\* one that a timed-out read consumed in part
StaleBodies == {"OK", "OPEN_LOOP", "CLOSED_LOOP", "24.8", "4.8", ""}

\* the line that heads the receive buffer once cmd is written: the reply
\* to cmd when nothing was pending, a line left by earlier calls otherwise
HeadBodies(cmd) ==
    IF rx = 0 THEN ReplyBodies(cmd, fw_mode) ELSE StaleBodies

\* what a read that times out can have received of one of the lines
Partials(lines) ==
    UNION {{SubSeq(b, 1, k) : k \in 0..Min(MaxCut, Len(b))} : b \in lines}

\* the courses one query can take: the head line arrives whole, or the
\* timeout elapses with some first bytes of it received
ReadEnv(cmd) ==
    {[ack |-> FALSE, line |-> TRUE, data |-> b] : b \in HeadBodies(cmd)}
    \cup {[ack |-> FALSE, line |-> FALSE, data |-> d] :
            d \in Partials(HeadBodies(cmd))}

\* the courses one set command can take: the controller answers it or not
AckEnv == {[NoEnv EXCEPT !.ack = a] : a \in BOOLEAN}

Ports == {"COM3", "Simulation", "Refresh - Update Ports List"}
Limits == {Tenths(800), Tenths(500)}
LimitArgs == {<< >>, <<Tenths(300)>>, <<Tenths(0)>>}
Setpoints == {Tenths(-5), Tenths(0), Tenths(300), Tenths(301), Tenths(500),
              Tenths(800), Tenths(801), NaN}
Levels == {-4096, -4095, 150, 4095, 4096}
Gains == {<<Tenths(10), Tenths(20), Tenths(30)>>,
          <<Tenths(0), Tenths(0), Tenths(0)>>,
          <<Tenths(-5), Tenths(10), Tenths(10)>>,
          <<Tenths(10), Tenths(-5), Tenths(0)>>,
          <<Tenths(10), Tenths(0), Tenths(-5)>>,
          <<Float(1, 12345, -5), Float(1, 5, -5), Float(1, 100025, -5)>>}
Periods == {-20, 0, 20, 1000}
ModeArgs == {"OPEN_LOOP", "CLOSED_LOOP", "open_loop", ""}
\* command texts a caller hands to write() itself
RawCommands == {"get_temp", "set_dac, 5000", "set_mode,CLOSED_LOOP"}

(***************************************************************************)
(* The state machine: one action per call on the session.                  *)
(***************************************************************************)
NoCall ==
    [op |-> "none", args |-> << >>, state |-> "NoSession", mode |-> "",
     pending |-> 0, frames |-> << >>, consumed |-> 0, timedout |-> 0,
     called |-> << >>, line |-> "", exc |-> "", warning |-> "",
     ret |-> NoRet, opened |-> FALSE, has_serial |-> FALSE, open_ok |-> FALSE]

\* the widgets as pid_controller.__init__ leaves them: the connect button
\* unchecked, the loop button reading 'Open\nLoop', the timer created and
\* not started, the lower grid disabled, and the settings that have a handler
\* connected: 'Loop Parameters/Band' 10.01, 'Integral time' 0.12,
\* 'Derivative time' 53.03, 'Control Period' 1.0, 'Output/Temperature
\* Setpoint' 24.5 and 'Output/DAC' 0 as setup_ParameterTree adds them
GuiStart ==
    [checked |-> FALSE, loop_text |-> "Open\nLoop", timer |-> FALSE,
     controls |-> FALSE,
     band |-> Float(1, 1001, -2), t_i |-> Float(1, 12, -2),
     t_d |-> Float(1, 5303, -2), period |-> 1, setpoint |-> Tenths(245),
     dac |-> 0]

Init ==
    /\ api = NoApi
    /\ fw_mode \in Modes
    /\ rx = 0
    /\ unanswered = 0
    /\ disconnected = FALSE
    /\ last = NoCall
    /\ gui = GuiStart
    /\ stack = << >>

\* the frames that stand unanswered once the call that left c has returned
Unanswered(c) == unanswered + Len(c.frames) - c.consumed

\* the call op(args) ran from the current state and left the context c
Finish(op, args, c) ==
    /\ Unanswered(c) <= MaxUnanswered
    /\ api' = c.api
    /\ fw_mode' = c.fw_mode
    /\ rx' = c.rx
    /\ unanswered' = Unanswered(c)
    /\ last' = [NoCall EXCEPT !.op = op, !.args = args,
                              !.state = SessionState(api), !.mode = fw_mode,
                              !.pending = rx, !.frames = c.frames,
                              !.consumed = c.consumed, !.timedout = c.timedout,
                              !.called = c.called, !.line = c.line,
                              !.exc = c.exc, !.warning = c.warning,
                              !.ret = c.ret]

\* The controller when its port is opened.  pid_api.__init__ sends it nothing
\* and waits ("Give the arduino time to run setup loop!"): a board that the
\* opening of its port restarts starts again in OPEN_LOOP, a board that it
\* does not restart stays in the mode it is in.
ArduinoSetup(mode) == {mode, "OPEN_LOOP"}

\* pid_controller._button_connect_toggled, checked: self.api = api_class(...)
\* A new instance opens the port afresh: nothing is pending on it.
Construct ==
    \E port \in Ports, lim \in Limits, has_serial \in BOOLEAN, open_ok \in BOOLEAN :
        LET n == pid_api_init(port, lim, has_serial, open_ok)
        IN  /\ api' = n.api
            /\ rx' = 0
            /\ unanswered' = 0
            /\ disconnected' = FALSE
            /\ last' = [NoCall EXCEPT !.op = "__init__", !.args = <<port, lim>>,
                                      !.state = SessionState(api),
                                      !.mode = fw_mode, !.pending = rx,
                                      !.exc = n.exc, !.opened = n.opened,
                                      !.has_serial = has_serial,
                                      !.open_ok = open_ok]
            /\ fw_mode' \in IF n.api.simulation THEN {fw_mode}
                             ELSE ArduinoSetup(fw_mode)
            /\ UNCHANGED <<gui, stack>>

Disconnect ==
    /\ api.alive
    /\ Finish("disconnect", << >>, disconnect(Call(NoEnv)))
    /\ disconnected' = TRUE
    /\ UNCHANGED <<gui, stack>>

GetDac ==
    /\ api.alive
    /\ \E e \in ReadEnv("get_dac") : Finish("get_dac", << >>, get_dac(Call(e)))
    /\ UNCHANGED <<disconnected, gui, stack>>

GetTemperature ==
    /\ api.alive
    /\ \E e \in ReadEnv("get_temp") :
          Finish("get_temperature", << >>, get_temperature(Call(e)))
    /\ UNCHANGED <<disconnected, gui, stack>>

GetTemperatureSetpoint ==
    /\ api.alive
    /\ \E e \in ReadEnv("get_setpoint") :
          Finish("get_temperature_setpoint", << >>,
                 get_temperature_setpoint(Call(e)))
    /\ UNCHANGED <<disconnected, gui, stack>>

GetParameters ==
    /\ api.alive
    /\ \E e \in ReadEnv("get_pid") :
          Finish("get_parameters", << >>, get_parameters(Call(e)))
    /\ UNCHANGED <<disconnected, gui, stack>>

GetMode ==
    /\ api.alive
    /\ \E e \in ReadEnv("get_mode") : Finish("get_mode", << >>, get_mode(Call(e)))
    /\ UNCHANGED <<disconnected, gui, stack>>

SetDac ==
    /\ api.alive
    /\ \E level \in Levels, e \in ReadEnv("get_mode") :
         \E a \in (IF e.data = "OPEN_LOOP" THEN BOOLEAN ELSE {FALSE}) :
            Finish("set_dac", <<level>>, set_dac(Call([e EXCEPT !.ack = a]), level))
    /\ UNCHANGED <<disconnected, gui, stack>>

SetTemperatureSetpoint ==
    /\ api.alive
    /\ \E T \in Setpoints, lim \in LimitArgs, e \in AckEnv :
          Finish("set_temperature_setpoint", <<T, lim>>,
                 set_temperature_setpoint(Call(e), T, lim))
    /\ UNCHANGED <<disconnected, gui, stack>>

SetParameters ==
    /\ api.alive
    /\ \E g \in Gains, e \in AckEnv :
          Finish("set_parameters", g, set_parameters(Call(e), g[1], g[2], g[3]))
    /\ UNCHANGED <<disconnected, gui, stack>>

SetMode ==
    /\ api.alive
    /\ \E mode \in ModeArgs, e \in AckEnv :
          Finish("set_mode", <<mode>>, set_mode(Call(e), mode))
    /\ UNCHANGED <<disconnected, gui, stack>>

SetPeriod ==
    /\ api.alive
    /\ \E period \in Periods, e \in AckEnv :
          Finish("set_period", <<period>>, set_period(Call(e), period))
    /\ UNCHANGED <<disconnected, gui, stack>>

GetPeriod ==
    /\ api.alive
    /\ \E e \in ReadEnv("get_period") :
          Finish("get_period", << >>, get_period(Call(e)))
    /\ UNCHANGED <<disconnected, gui, stack>>

GetRTDConfig ==
    /\ api.alive
    /\ \E e \in ReadEnv("get_MAX31865_config") :
          Finish("get_RTD_config", << >>, get_RTD_config(Call(e)))
    /\ UNCHANGED <<disconnected, gui, stack>>

GetAllVariables ==
    /\ api.alive
    /\ \E e \in ReadEnv("get_all") :
          Finish("get_all_variables", << >>, get_all_variables(Call(e)))
    /\ UNCHANGED <<disconnected, gui, stack>>

GetVersion ==
    /\ api.alive
    /\ \E e \in ReadEnv("get_version") :
          Finish("get_version", << >>, get_version(Call(e)))
    /\ UNCHANGED <<disconnected, gui, stack>>

\* pid_api.write called by the caller itself, with a command of its making
Write ==
    /\ api.alive
    /\ \E raw_data \in RawCommands, e \in AckEnv :
          Finish("write", <<raw_data>>, write(Call(e), raw_data))
    /\ UNCHANGED <<disconnected, gui, stack>>

\* pid_api.read called by the caller itself: the head line of the receive
\* buffer, whatever call it answers
Read ==
    /\ api.alive
    /\ \E e \in ReadEnv("") :
          LET r == read(Call(e))
          IN  Finish("read", << >>,
                     IF r.exc # "" THEN r ELSE Return(r, "str", r.line))
    /\ UNCHANGED <<disconnected, gui, stack>>

Next ==
    \/ Construct
    \/ Disconnect
    \/ GetDac
    \/ GetTemperature
    \/ GetTemperatureSetpoint
    \/ GetParameters
    \/ GetMode
    \/ SetDac
    \/ SetTemperatureSetpoint
    \/ SetParameters
    \/ SetMode
    \/ SetPeriod
    \/ GetPeriod
    \/ GetRTDConfig
    \/ GetAllVariables
    \/ GetVersion
    \/ Write
    \/ Read

Spec == Init /\ [][Next]_vars

(***************************************************************************)
(* Properties.                                                             *)
(***************************************************************************)
DacLevels == -4095..4095

\* the last call was op, made on a Connected session
OnConnected(op) == last.op = op /\ last.state = "Connected"

\* the frames of the last call that carry the command keyword kw
FramesOf(kw) ==
    {i \in 1..Len(last.frames) : FrameFields(last.frames[i])[1] = kw}

\* C1 (as claimed): on a Connected session, set_dac(level) with level in
\* [-4095, 4095] puts exactly one frame, '>set_dac,<level>\n', on the wire
\* while the controller is in OPEN_LOOP and no frame while it is in
\* CLOSED_LOOP.  Stated for calls whose mode query is answered in time by
\* its own reply.
C1_OneFrameOrNone ==
    (/\ OnConnected("set_dac")
     /\ last.args[1] \in DacLevels
     /\ last.pending = 0 /\ last.timedout = 0)
    => /\ last.mode = "OPEN_LOOP"
          => last.frames = <<">set_dac," \o ToString(last.args[1]) \o "\n">>
       /\ last.mode = "CLOSED_LOOP" => last.frames = << >>

\* C1 (amended): on a Connected session, set_dac(level) with level in
\* [-4095, 4095] first queries the mode with the frame '>get_mode\n'; when
\* the reply read is OPEN_LOOP it then writes exactly one more frame,
\* '>set_dac, <level>\n' (a space follows the comma); on any other reply,
\* CLOSED_LOOP among them, it writes no further frame.  A controller in
\* OPEN_LOOP (CLOSED_LOOP) with nothing pending answers in time with that.
C1_SetDacFrames ==
    (OnConnected("set_dac") /\ last.args[1] \in DacLevels)
    => /\ last.exc = ""
       /\ last.frames =
            IF last.line = "OPEN_LOOP"
            THEN <<">get_mode\n", ">set_dac, " \o ToString(last.args[1]) \o "\n">>
            ELSE <<">get_mode\n">>
       /\ (last.pending = 0 /\ last.timedout = 0) => last.line = last.mode

C1_Witness ==
    /\ OnConnected("set_dac")
    /\ last.args[1] = -4095
    /\ last.mode = "OPEN_LOOP"
    /\ last.pending = 0 /\ last.timedout = 0
    /\ Len(last.frames) = 2

\* the limit in force in the last set_temperature_setpoint call
EffectiveLimit ==
    IF last.args[2] = << >> THEN api.temperature_limit ELSE last.args[2][1]

\* a <= b
FloatLe(a, b) ==
    /\ a.k # "nan" /\ b.k # "nan"
    /\ FloatGt(b, a) \/ FloatEq(a, b)

\* the frame that carries the setpoint T
SetpointFrame(T) ==
    CASE T = Tenths(-5)  -> ">set_setpoint,-0.5\n"
      [] T = Tenths(0)   -> ">set_setpoint,0.0\n"
      [] T = Tenths(300) -> ">set_setpoint,30.0\n"
      [] T = Tenths(301) -> ">set_setpoint,30.1\n"
      [] T = Tenths(500) -> ">set_setpoint,50.0\n"
      [] T = Tenths(800) -> ">set_setpoint,80.0\n"
      [] T = Tenths(801) -> ">set_setpoint,80.1\n"
      [] T = NaN         -> ">set_setpoint,nan\n"

\* C2 (as claimed): on a Connected session, set_temperature_setpoint(T)
\* writes a set_setpoint frame if and only if T <= L, L being the call's
\* temperature_limit when given and the limit configured at construction
\* otherwise; when T > L nothing is written and a warning is printed.
C2_SetpointIffWithinLimit ==
    OnConnected("set_temperature_setpoint")
    => LET T == last.args[1]
           L == EffectiveLimit
       IN  /\ FloatLe(T, L) <=> FramesOf("set_setpoint") # {}
           /\ FloatGt(T, L) => (last.frames = << >> /\ last.warning # "")

\* C2 (amended): on a Connected session, set_temperature_setpoint(T) writes
\* nothing and prints a warning when T > L, and writes one set_setpoint
\* frame carrying str(T), without a warning, in every other case: when
\* T <= L, and also when T is not a number, which is neither above nor
\* within the limit.
C2_SetpointUnlessAbove ==
    OnConnected("set_temperature_setpoint")
    => LET T == last.args[1]
           L == EffectiveLimit
       IN  /\ FloatGt(T, L)
              => /\ last.frames = << >>
                 /\ last.called = << >>
                 /\ last.warning # ""
           /\ ~FloatGt(T, L)
              => /\ last.frames = <<SetpointFrame(T)>>
                 /\ last.warning = ""
           /\ FloatGt(T, L) \/ FloatLe(T, L) \/ T = NaN
           /\ T = NaN => ~FloatGt(T, L) /\ ~FloatLe(T, L)

\* a setpoint that is not a number has been written under the limit 30.0
C2_Witness ==
    /\ OnConnected("set_temperature_setpoint")
    /\ last.args = <<NaN, <<Tenths(300)>>>>
    /\ last.frames = <<">set_setpoint,nan\n">>
    /\ last.warning = ""

\* C3: set_mode with a mode other than "OPEN_LOOP" and "CLOSED_LOOP" sends no
\* frame in any session state, uses the transport in no way, and leaves the
\* session, its simulated mode included, and the controller's mode as they
\* were.
C3_InvalidModeRejected ==
    [][(last'.op = "set_mode" /\ last'.args[1] \notin Modes)
       => /\ last'.frames = << >>
          /\ last'.called = << >>
          /\ last'.warning # ""
          /\ api' = api
          /\ fw_mode' = fw_mode
          /\ rx' = rx]_vars

C3_Witness ==
    /\ last.op = "set_mode"
    /\ last.args[1] = "open_loop"
    /\ last.state = "Simulated"
    /\ api.simulation_mode = "OPEN_LOOP"
    /\ last.warning # ""

\* the argument a frame carries meets the input constraint of its operation
FrameWithinConstraint(frame) ==
    LET f == FrameFields(frame)
    IN  CASE f[1] = "set_dac"    -> py_int(f[2]).v \in DacLevels
          [] f[1] = "set_pid"    -> \A i \in 2..4 : ~FloatGt(Tenths(0), py_float(f[i]).v)
          [] f[1] = "set_period" -> py_int(f[2]).v > 0
          [] OTHER               -> TRUE

\* C4: no frame written on a Connected session carries an argument that
\* violates the operation's input constraint: no set_dac level outside
\* [-4095, 4095], no negative set_pid gain, no set_period period that is not
\* positive.
C4_NoInvalidFrameOnWire ==
    \A i \in 1..Len(last.frames) : FrameWithinConstraint(last.frames[i])

GetOps ==
    {"get_temperature", "get_temperature_setpoint", "get_dac", "get_parameters",
     "get_mode", "get_period", "get_RTD_config", "get_version",
     "get_all_variables"}

\* C5: in Simulated mode every get_* operation returns a value and calls
\* neither write nor read.
C5_SimulatedGetsReturn ==
    (last.op \in GetOps /\ last.state = "Simulated")
    => /\ last.exc = ""
       /\ last.ret.t # "none"
       /\ last.called = << >>

\* C6: opening a session raises nothing and ends in Connected or in
\* Simulated: in Simulated when the port is the sentinel "Simulation" (no
\* transport is then opened, whatever is available) or when opening the
\* transport fails, and in Connected only when the transport was opened.
C6_OpenNeverFails ==
    last.op = "__init__"
    => /\ last.exc = ""
       /\ SessionState(api) \in {"Connected", "Simulated"}
       /\ last.args[1] = "Simulation"
          => SessionState(api) = "Simulated" /\ ~last.opened
       /\ (last.opened /\ ~last.open_ok) => SessionState(api) = "Simulated"
       /\ SessionState(api) = "Connected" => (last.opened /\ last.open_ok)

C6_Witness ==
    /\ last.op = "__init__"
    /\ last.args[1] = "COM3"
    /\ last.opened /\ ~last.open_ok
    /\ SessionState(api) = "Simulated"

\* the number of sep characters in s
RECURSIVE Count(_, _)
Count(s, sep) ==
    IF Len(s) = 0 THEN 0
    ELSE (IF Char(s, 1) = sep THEN 1 ELSE 0) + Count(SubSeq(s, 2, Len(s)), sep)

\* s is a number written with digits and at most one point
PlainNumber(s) ==
    /\ \E i \in 1..Len(s) : IsDigit(Char(s, i))
    /\ \A i \in 1..Len(s) : IsDigit(Char(s, i)) \/ Char(s, i) = "."
    /\ Count(s, ".") <= 1

\* the line has exactly n comma-separated fields and they are numbers
NumericFields(line, n) ==
    /\ Count(line, ",") = n - 1
    /\ \A i \in 1..n : PlainNumber(Split(line, ",")[i])

\* C7 (as claimed): get_all_variables on a reply of exactly eight
\* comma-separated numeric fields returns the eight values in wire order
\* (time_ms, temp, setpoint, dac, period, u1, u2, u3); on a reply of fewer
\* than eight fields it fails with ProtocolError and returns nothing.
C7_ProtocolError ==
    OnConnected("get_all_variables")
    => /\ NumericFields(last.line, 8)
          => (last.exc = "" /\ last.ret.t = "tuple" /\ Len(last.ret.v) = 8)
       /\ Count(last.line, ",") < 7
          => (last.exc = "ProtocolError" /\ last.ret = NoRet)

\* C7 (amended): get_all_variables on a reply of exactly eight
\* comma-separated numeric fields returns the eight values in wire order
\* (time_ms, temp, setpoint, dac, period, u1, u2, u3), each the float that
\* its field reads as; on a reply of fewer than eight fields it returns
\* nothing and fails with IndexError when the fields present are numbers,
\* with ValueError when one of them is not.
C7_AllVariables ==
    OnConnected("get_all_variables")
    => /\ NumericFields(last.line, 8)
          => (last.exc = "" /\ last.ret.t = "tuple" /\ Len(last.ret.v) = 8)
       /\ last.line = "12000,24.8,25.0,150,1000,0.1,0.2,0.3"
          => last.ret.v = <<Tenths(120000), Tenths(248), Tenths(250), Tenths(1500),
                            Tenths(10000), Tenths(1), Tenths(2), Tenths(3)>>
       /\ last.line = "12000,24.8,1125899906842624.75,150,1000,0.1,0.2,0.3"
          => last.ret.v = <<Tenths(120000), Tenths(248),
                            Decimal(1, "11258999068426248", -1), Tenths(1500),
                            Tenths(10000), Tenths(1), Tenths(2), Tenths(3)>>
       /\ last.exc = ""
          => last.line \in {"12000,24.8,25.0,150,1000,0.1,0.2,0.3",
                            "12000,24.8,1125899906842624.75,150,1000,0.1,0.2,0.3"}
       /\ Count(last.line, ",") < 7
          => /\ last.ret = NoRet
             /\ last.exc = IF NumericFields(last.line, Count(last.line, ",") + 1)
                            THEN "IndexError" ELSE "ValueError"

\* a reply of eight fields, one of which has more digits than a float
\* holds, has been returned as eight floats
C7_Witness ==
    /\ OnConnected("get_all_variables")
    /\ last.consumed = 1
    /\ last.line = "12000,24.8,1125899906842624.75,150,1000,0.1,0.2,0.3"
    /\ last.ret.t = "tuple"
    /\ py_str_float(last.ret.v[3]) = "1125899906842624.8"

\* C8: when no reply arrives within the timeout, get_temperature fails with
\* TimeoutError, which is not the error of a malformed reply, and the bytes
\* received so far are discarded.
C8_TimeoutRaises ==
    (OnConnected("get_temperature") /\ last.timedout > 0)
    => /\ last.exc = "TimeoutError"
       /\ last.ret = NoRet

\* C9 (as claimed): once disconnect() has been called on a Connected or
\* Simulated instance the instance is Disconnected, and stays so.
C9_DisconnectedAfterDisconnect ==
    disconnected => SessionState(api) = "Disconnected"

\* C9 (amended): disconnect() on a Connected instance closes the transport:
\* the instance is Disconnected and stays so, and no later operation on it
\* writes a frame or reads from the transport.  disconnect() on a Simulated
\* instance changes nothing: the instance stays Simulated, and it too
\* writes no frame and reads nothing.
C9_DisconnectTerminal ==
    disconnected
    => /\ SessionState(api) \in {"Disconnected", "Simulated"}
       /\ last.state = "Connected" => last.op = "disconnect"
       /\ last.op = "disconnect"
          => SessionState(api) = (IF last.state = "Connected" THEN "Disconnected"
                                  ELSE last.state)
       /\ last.frames = << >>
       /\ last.consumed = 0 /\ last.timedout = 0
       /\ rx = last.pending

C9_Witness ==
    /\ disconnected
    /\ last.op = "get_temperature"
    /\ last.state = "Disconnected"
    /\ last.exc = "PortNotOpenError"
    /\ SessionState(api) = "Disconnected"

SetOps ==
    {"set_temperature_setpoint", "set_parameters", "set_mode", "set_period"}

\* the query each get_* operation sends
QueryOf(op) ==
    CASE op = "get_dac" -> "get_dac"
      [] op = "get_temperature" -> "get_temp"
      [] op = "get_temperature_setpoint" -> "get_setpoint"
      [] op = "get_parameters" -> "get_pid"
      [] op = "get_mode" -> "get_mode"
      [] op = "get_period" -> "get_period"
      [] op = "get_RTD_config" -> "get_MAX31865_config"
      [] op = "get_all_variables" -> "get_all"
      [] op = "get_version" -> "get_version"

\* C10 (as claimed): on a Connected session every operation is exactly one
\* round trip, one frame written and one reply consumed.  Stated for calls
\* that policy does not reject and whose read, if any, does not time out.
C10_OneRoundTripEach ==
    (/\ last.op \in GetOps \cup SetOps \cup {"set_dac"}
     /\ last.state = "Connected"
     /\ last.timedout = 0 /\ last.warning = "")
    => Len(last.frames) = 1 /\ last.consumed = 1

\* C10 (amended): on a Connected session every get_* operation writes one
\* frame and reads once (it consumes one reply line unless the read times
\* out); set_temperature_setpoint, set_parameters, set_mode and set_period
\* write one frame when they pass validation and none otherwise, and never
\* read; set_dac is the round trip of get_mode followed, in OPEN_LOOP, by one
\* frame that is not read for.  The line a get_* parses is the reply to its
\* own command when no line was pending as it was sent.
C10_RoundTrips ==
    last.state = "Connected"
    => /\ last.op \in GetOps
          => /\ last.frames = <<">" \o QueryOf(last.op) \o "\n">>
             /\ last.consumed + last.timedout = 1
             /\ (last.pending = 0 /\ last.consumed = 1)
                => last.line \in ReplyBodies(QueryOf(last.op), last.mode)
       /\ last.op \in SetOps
          => /\ last.consumed = 0 /\ last.timedout = 0
             /\ Len(last.frames) = (IF last.warning = "" THEN 1 ELSE 0)
       /\ last.op = "set_dac"
          => /\ last.consumed + last.timedout = 1
             /\ Len(last.frames) = (IF last.line = "OPEN_LOOP" THEN 2 ELSE 1)
       /\ unanswered >= rx

C10_Witness ==
    /\ OnConnected("get_dac")
    /\ last.pending > 0
    /\ last.consumed = 1
    /\ last.line = "OK"
    /\ last.exc = "ValueError"

(***************************************************************************)
(* pid_controller: the window's handlers, run by the Qt event loop.        *)
(* A handler in progress is a frame [h, pc, in_call]: pc names the session *)
(* call or statement it stands at, in_call that control is inside that     *)
(* pid_api method, between the write of its command and the return of its  *)
(* read.  One step of a handler is one session call together with the      *)
(* statements that follow it up to the next call.  An exception ends the   *)
(* handler it is raised in.                                                 *)
(***************************************************************************)
ApiVars == <<api, fw_mode, rx, unanswered, disconnected, last>>

\* temperature_limit=80 of pid_api.__init__, which the window does not pass
temperature_limit_default == Tenths(800)

\* the settings of the tree that have a handler connected to their change,
\* by the name of the field of gui that holds their value
Keys == {"band", "t_i", "t_d", "period", "setpoint", "dac"}

\* values the user can give a setting within its bounds
Edits(key) ==
    CASE key = "band"     -> {Tenths(0)}
      [] key = "t_i"      -> {Tenths(0)}
      [] key = "t_d"      -> {Tenths(0)}
      [] key = "period"   -> {20}
      [] key = "setpoint" -> {Tenths(300)}
      [] key = "dac"      -> {150}

\* the setting holds the value it is being set to, and so does not change
Same(key, old, new) ==
    IF key \in {"period", "dac"} THEN old = new ELSE FloatEq(old, new)

\* the pid_api methods that may write a command
SessionCalls == GetOps \cup SetOps \cup {"set_dac"}

\* a handler in progress; loc holds the values of the local names S, period,
\* (P, I, D) and config of _button_connect_toggled, in the order they are
\* assigned
Frame(h, pc) == [h |-> h, pc |-> pc, in_call |-> FALSE, loc |-> << >>]

Top == stack[Len(stack)]

At(h, pc) == stack # << >> /\ Top.h = h /\ Top.pc = pc /\ ~Top.in_call

InCall(h, pc) == stack # << >> /\ Top.h = h /\ Top.pc = pc /\ Top.in_call

\* the handler with frame f hands control to the event loop wherever the
\* session blocks in a read as well
PumpsEvents_in_call(f) == f.pc = "process_events" \/ f.in_call

\* the handler with frame f is in self.window.process_events(), the one
\* place where a handler lets the event loop run other handlers
PumpsEvents(f) == f.pc = "process_events"

\* the event loop can run a handler: none is in progress, or the innermost
\* one is processing events
CanDispatch ==
    /\ Len(stack) < MaxDepth
    /\ IF stack = << >> THEN TRUE ELSE PumpsEvents(Top)

Push(f) == stack' = Append(stack, f)
Pop == stack' = SubSeq(stack, 1, Len(stack) - 1)
Goto(pc) ==
    stack' = [stack EXCEPT ![Len(stack)] = [@ EXCEPT !.pc = pc, !.in_call = FALSE]]

\* the register setting written with the '0b' prefix alone
pad_config_unpadded(config) == "0b" \o config

\* _button_connect_toggled: for i in range(8-len(config)): config = '0'+config
\* and then config = '0b'+config
pad_config(config) == "0b" \o Zeros(8 - Len(config)) \o config

\* the statement that follows pc in the Connected branch of
\* _button_connect_toggled
ToggledNext(pc) ==
    CASE pc = "get_temperature"          -> "get_temperature_setpoint"
      [] pc = "get_temperature_setpoint" -> "get_period"
      [] pc = "get_period"               -> "get_parameters"
      [] pc = "get_parameters"           -> "get_dac"
      [] pc = "get_dac"                  -> "set_value_band"
      [] pc = "set_value_band"           -> "set_value_ti"
      [] pc = "set_value_ti"             -> "set_value_td"
      [] pc = "set_value_td"             -> "set_value_period"
      [] pc = "set_value_period"         -> "set_value_setpoint"
      [] pc = "set_value_setpoint"       -> "force_dac"
      [] pc = "force_dac"                -> "get_RTD_config"

\* the setting that the statement pc of _button_connect_toggled sets
KeyOf(pc) ==
    CASE pc = "set_value_band"     -> "band"
      [] pc = "set_value_ti"       -> "t_i"
      [] pc = "set_value_td"       -> "t_d"
      [] pc = "set_value_period"   -> "period"
      [] pc = "set_value_setpoint" -> "setpoint"

\* the value it sets it to: P, I, D, period and S as the queries returned them
ValueOf(pc, loc) ==
    CASE pc = "set_value_band"     -> loc[3][1]
      [] pc = "set_value_ti"       -> loc[3][2]
      [] pc = "set_value_td"       -> loc[3][3]
      [] pc = "set_value_period"   -> loc[2]
      [] pc = "set_value_setpoint" -> loc[1]

\* the handler connected to the change signal of a setting, and the session
\* call it makes
SlotOf(key) ==
    CASE key \in {"band", "t_i", "t_d"}
                            -> Frame("loop_parameter_changed", "set_parameters")
      [] key = "period"     -> Frame("_number_period_changed", "set_period")
      [] key = "dac"        -> Frame("_number_dac_changed", "set_dac")
      [] key = "setpoint"   -> Frame("_number_setpoint_changed",
                                     "set_temperature_setpoint")

\* the five queries that open the Connected branch
StartupGet(op, c) ==
    CASE op = "get_temperature"          -> get_temperature(c)
      [] op = "get_temperature_setpoint" -> get_temperature_setpoint(c)
      [] op = "get_period"               -> get_period(c)
      [] op = "get_parameters"           -> get_parameters(c)
      [] op = "get_dac"                  -> get_dac(c)

\* the operating mode that a text of the loop button stands for
ModeOfText(text) == IF text = "Closed\nLoop" THEN "CLOSED_LOOP" ELSE "OPEN_LOOP"

\* the text of the loop button once loop_control_changed has changed it
OtherText(text) == IF text = "Open\nLoop" THEN "Closed\nLoop" ELSE "Open\nLoop"

\* the courses a set_dac call can take: those of its mode query, and the
\* controller answering the set_dac command or not when one follows
DacEnv ==
    UNION {{[e EXCEPT !.ack = a] :
              a \in (IF e.data = "OPEN_LOOP" THEN BOOLEAN ELSE {FALSE})} :
           e \in ReadEnv("get_mode")}

\* the courses the session call of handler h can take
SlotEnv(h) == IF h = "_number_dac_changed" THEN DacEnv ELSE AckEnv

\* the arguments handler h reads from the settings g for its session call
SlotArgs(h, g) ==
    CASE h = "loop_parameter_changed"   -> <<g.band, g.t_i, g.t_d>>
      [] h = "_number_period_changed"   -> <<g.period>>
      [] h = "_number_dac_changed"      -> <<g.dac>>
      [] h = "_number_setpoint_changed" -> <<g.setpoint, << >>>>

\* the session call of handler h with the settings g, in the course e
SlotCall(h, g, e) ==
    CASE h = "loop_parameter_changed"
           -> set_parameters(Call(e), g.band, g.t_i, g.t_d)
      [] h = "_number_period_changed"   -> set_period(Call(e), g.period)
      [] h = "_number_dac_changed"      -> set_dac(Call(e), g.dac)
      [] h = "_number_setpoint_changed"
           -> set_temperature_setpoint(Call(e), g.setpoint, << >>)

\* the controller starts in OPEN_LOOP, as the loop button reads
GuiInit == Init /\ fw_mode = "OPEN_LOOP"

\* control enters the pid_api method the innermost handler stands at
EnterCall ==
    /\ stack # << >>
    /\ Top.pc \in SessionCalls
    /\ ~Top.in_call
    /\ stack' = [stack EXCEPT ![Len(stack)].in_call = TRUE]
    /\ UNCHANGED <<ApiVars, gui>>

\* the user toggles the connect button: _button_connect_toggled starts; when
\* it connects, a handler of a setting can run inside it
button_connect_toggled ==
    /\ CanDispatch
    /\ IF gui.checked THEN TRUE ELSE Len(stack) + 1 < MaxDepth
    /\ gui' = [gui EXCEPT !.checked = ~@]
    /\ Push(Frame("_button_connect_toggled",
                  IF gui.checked THEN "disconnect" ELSE "__init__"))
    /\ UNCHANGED ApiVars

\* _button_connect_toggled, checked: self.api = self._api_class(...); with a
\* simulated session the handler goes on to enable the controls.
ToggledInit ==
    /\ At("_button_connect_toggled", "__init__")
    /\ \E port \in Ports, has_serial \in BOOLEAN, open_ok \in BOOLEAN :
         LET n == pid_api_init(port, temperature_limit_default, has_serial, open_ok)
         IN  /\ api' = n.api
             /\ rx' = 0
             /\ unanswered' = 0
             /\ disconnected' = FALSE
             /\ last' = [NoCall EXCEPT !.op = "__init__",
                                       !.args = <<port, temperature_limit_default>>,
                                       !.state = SessionState(api),
                                       !.mode = fw_mode, !.pending = rx,
                                       !.exc = n.exc, !.opened = n.opened,
                                       !.has_serial = has_serial,
                                       !.open_ok = open_ok]
             /\ IF n.api.simulation
                THEN gui' = [gui EXCEPT !.controls = TRUE] /\ Goto("get_version")
                ELSE gui' = gui /\ Goto("get_temperature")
             /\ fw_mode' \in IF n.api.simulation THEN {fw_mode}
                             ELSE ArduinoSetup(fw_mode)

\* _button_connect_toggled, Connected: T, S, period, (P, I, D), dac_output
ToggledGet ==
    \E op \in {"get_temperature", "get_temperature_setpoint", "get_period",
               "get_parameters", "get_dac"} :
        /\ InCall("_button_connect_toggled", op)
        /\ \E e \in ReadEnv(QueryOf(op)) :
             LET c == StartupGet(op, Call(e))
                 keep == op \in {"get_temperature_setpoint", "get_period",
                                 "get_parameters"}
             IN  /\ Finish(op, << >>, c)
                 /\ IF c.exc # "" THEN Pop
                    ELSE stack' = [stack EXCEPT ![Len(stack)] =
                                      [@ EXCEPT !.pc = ToggledNext(op),
                                                !.in_call = FALSE,
                                                !.loc = IF keep
                                                        THEN Append(@, c.ret.v)
                                                        ELSE @]]
        /\ UNCHANGED <<disconnected, gui>>

\* _button_connect_toggled, Connected: self.settings.set_value(key, value);
\* when that changes the value, the handler connected to the key runs there,
\* before the statement that follows
SetValue ==
    \E pc \in {"set_value_band", "set_value_ti", "set_value_td",
               "set_value_period", "set_value_setpoint"} :
        /\ At("_button_connect_toggled", pc)
        /\ LET key == KeyOf(pc)
               value == ValueOf(pc, Top.loc)
           IN  IF Same(key, gui[key], value)
               THEN gui' = gui /\ Goto(ToggledNext(pc))
               ELSE /\ gui' = [gui EXCEPT ![key] = value]
                    /\ stack' = Append([stack EXCEPT ![Len(stack)].pc =
                                                        ToggledNext(pc)],
                                       SlotOf(key))
        /\ UNCHANGED ApiVars

\* _button_connect_toggled, Connected: 'Output/DAC' is set to 0 with its
\* signals blocked, so that no handler runs
ForceDac ==
    /\ At("_button_connect_toggled", "force_dac")
    /\ gui' = [gui EXCEPT !.dac = 0]
    /\ Goto(ToggledNext("force_dac"))
    /\ UNCHANGED ApiVars

\* _button_connect_toggled, Connected: the register is read into config,
\* config is padded and handed to the setting 'Configuration register'; the
\* controls are enabled
ToggledRTDConfig ==
    /\ InCall("_button_connect_toggled", "get_RTD_config")
    /\ \E e \in ReadEnv("get_MAX31865_config") :
         LET c == get_RTD_config(Call(e))
         IN  /\ Finish("get_RTD_config", << >>, c)
             /\ IF c.exc # ""
                THEN gui' = gui /\ Pop
                ELSE /\ gui' = [gui EXCEPT !.controls = TRUE]
                     /\ stack' = [stack EXCEPT ![Len(stack)] =
                                     [@ EXCEPT !.pc = "get_version",
                                               !.in_call = FALSE,
                                               !.loc = Append(@, pad_config(c.ret.v))]]
    /\ UNCHANGED disconnected

\* _button_connect_toggled, checked, either branch:
\* self.label_status.set_text(self.api.get_version()); self.timer.start()
ToggledVersion ==
    /\ InCall("_button_connect_toggled", "get_version")
    /\ \E e \in ReadEnv("get_version") :
         LET c == get_version(Call(e))
         IN  /\ Finish("get_version", << >>, c)
             /\ gui' = IF c.exc # "" THEN gui ELSE [gui EXCEPT !.timer = TRUE]
             /\ Pop
    /\ UNCHANGED disconnected

\* _button_connect_toggled, unchecked, leaving the text of the loop button
\* as it is
ToggledDisconnect_keeps_text ==
    /\ At("_button_connect_toggled", "disconnect")
    /\ LET c == disconnect(Call(NoEnv))
       IN  /\ Finish("disconnect", << >>, c)
           /\ gui' = IF c.exc # "" THEN gui
                     ELSE [gui EXCEPT !.controls = FALSE, !.timer = FALSE]
    /\ disconnected' = TRUE
    /\ Pop

\* _button_connect_toggled, unchecked
ToggledDisconnect ==
    /\ At("_button_connect_toggled", "disconnect")
    /\ LET c == disconnect(Call(NoEnv))
       IN  /\ Finish("disconnect", << >>, c)
           /\ gui' = IF c.exc # "" THEN gui
                     ELSE [gui EXCEPT !.loop_text = "Open\nLoop",
                                      !.controls = FALSE, !.timer = FALSE]
    /\ disconnected' = TRUE
    /\ Pop

\* the timer ticks: _timer_tick starts
timer_tick ==
    /\ CanDispatch
    /\ gui.timer
    /\ Push(Frame("_timer_tick", "get_all_variables"))
    /\ UNCHANGED <<ApiVars, gui>>

\* _timer_tick: the poll, the widgets and plots updated from it, and then
\* self.window.process_events()
TickPoll ==
    /\ InCall("_timer_tick", "get_all_variables")
    /\ \E e \in ReadEnv("get_all") :
         LET c == get_all_variables(Call(e))
         IN  /\ Finish("get_all_variables", << >>, c)
             /\ IF c.exc # "" THEN Pop ELSE Goto("process_events")
    /\ UNCHANGED <<disconnected, gui>>

\* self.window.process_events() returns, and _timer_tick with it
ProcessEventsDone ==
    /\ At("_timer_tick", "process_events")
    /\ Pop
    /\ UNCHANGED <<ApiVars, gui>>

\* the user clicks the loop button: loop_control_changed starts and changes
\* the text of the button
loop_control_changed ==
    /\ CanDispatch
    /\ gui.controls
    /\ \E e \in AckEnv :
         Unanswered(set_mode(Call(e), ModeOfText(OtherText(gui.loop_text))))
            <= MaxUnanswered
    /\ gui' = [gui EXCEPT !.loop_text = OtherText(@)]
    /\ Push(Frame("loop_control_changed", "set_mode"))
    /\ UNCHANGED ApiVars

\* loop_control_changed: self.api.set_mode of the mode the button now shows
LoopControlSetMode ==
    /\ InCall("loop_control_changed", "set_mode")
    /\ \E e \in AckEnv :
         LET mode == ModeOfText(gui.loop_text)
         IN  Finish("set_mode", <<mode>>, set_mode(Call(e), mode))
    /\ Pop
    /\ UNCHANGED <<disconnected, gui>>

\* the user gives a setting of the tree another value: the setting holds it
\* and the handler connected to the setting starts
setting_changed ==
    /\ CanDispatch
    /\ gui.controls
    /\ \E key \in Keys :
         \E value \in Edits(key) :
            LET g == [gui EXCEPT ![key] = value]
                f == SlotOf(key)
            IN  /\ ~Same(key, gui[key], value)
                /\ \E e \in SlotEnv(f.h) :
                      Unanswered(SlotCall(f.h, g, e)) <= MaxUnanswered
                /\ gui' = g
                /\ Push(f)
    /\ UNCHANGED ApiVars

\* the session call of the handler h of a setting, with the values that
\* the settings hold
SlotReturns(h) ==
    /\ \E e \in SlotEnv(h) :
          Finish(Top.pc, SlotArgs(h, gui), SlotCall(h, gui, e))
    /\ Pop
    /\ UNCHANGED <<disconnected, gui>>

\* loop_parameter_changed
LoopParameterChanged ==
    /\ InCall("loop_parameter_changed", "set_parameters")
    /\ SlotReturns("loop_parameter_changed")

\* _number_period_changed
NumberPeriodChanged ==
    /\ InCall("_number_period_changed", "set_period")
    /\ SlotReturns("_number_period_changed")

\* _number_dac_changed
NumberDacChanged ==
    /\ InCall("_number_dac_changed", "set_dac")
    /\ SlotReturns("_number_dac_changed")

\* _number_setpoint_changed
NumberSetpointChanged ==
    /\ InCall("_number_setpoint_changed", "set_temperature_setpoint")
    /\ SlotReturns("_number_setpoint_changed")

GuiNext ==
    \/ EnterCall
    \/ button_connect_toggled
    \/ ToggledInit
    \/ ToggledGet
    \/ SetValue
    \/ ForceDac
    \/ ToggledRTDConfig
    \/ ToggledVersion
    \/ ToggledDisconnect
    \/ timer_tick
    \/ TickPoll
    \/ ProcessEventsDone
    \/ loop_control_changed
    \/ LoopControlSetMode
    \/ setting_changed
    \/ LoopParameterChanged
    \/ NumberPeriodChanged
    \/ NumberDacChanged
    \/ NumberSetpointChanged

GuiSpec == GuiInit /\ [][GuiNext]_vars

\* C11 (as claimed): get_RTD_config hands its caller the register reply padded
\* with zeros on the left to exactly 8 binary digits: a reply of k <= 8
\* digits comes back as 8-k zeros followed by the reply ("101" as "00000101").
C11_PaddedToCaller ==
    (OnConnected("get_RTD_config") /\ last.exc = "" /\ Len(last.line) <= 8)
    => /\ last.ret.t = "str"
       /\ Len(last.ret.v) = 8
       /\ \A i \in 1..(8 - Len(last.line)) : Char(last.ret.v, i) = "0"
       /\ SubSeq(last.ret.v, 9 - Len(last.line), 8) = last.line
       /\ last.line = "101" => last.ret.v = "00000101"

\* the value of config that _button_connect_toggled hands to the setting
\* 'Configuration register' once get_RTD_config has returned
ShownConfig == Top.loc[Len(Top.loc)]

\* C11 (amended): get_RTD_config returns the reply as it was read, without
\* padding; its caller _button_connect_toggled pads it with zeros on the left
\* to 8 digits and puts '0b' before it, and that is the value it hands to
\* the setting 'Configuration register' (reply "101" is shown as
\* "0b00000101").
C11_PaddedByWindow ==
    (OnConnected("get_RTD_config") /\ last.exc = "")
    => /\ last.ret = [t |-> "str", v |-> last.line]
       /\ Top.h = "_button_connect_toggled" /\ Top.pc = "get_version"
       /\ Len(last.line) <= 8
          => /\ Len(ShownConfig) = 10
             /\ SubSeq(ShownConfig, 1, 2) = "0b"
             /\ \A i \in 3..(10 - Len(last.line)) : Char(ShownConfig, i) = "0"
             /\ SubSeq(ShownConfig, 11 - Len(last.line), 10) = last.line
       /\ last.line = "101" => ShownConfig = "0b00000101"

C11_Witness ==
    /\ OnConnected("get_RTD_config")
    /\ last.consumed = 1
    /\ last.line = "101"
    /\ last.ret.v = "101"
    /\ ShownConfig = "0b00000101"

\* s is a decimal literal with exactly four digits after the point
FourDecimals(s) ==
    LET k == Find(s, ".", 1)
    IN  /\ k > 1
        /\ Len(s) - k = 4
        /\ \A i \in (k + 1)..Len(s) : IsDigit(Char(s, i))

\* the frame that carries the gains g
SetPidFrame(g) ==
    CASE g = <<Tenths(10), Tenths(20), Tenths(30)>>
           -> ">set_pid,1.0000,2.0000,3.0000\n"
      [] g = <<Tenths(0), Tenths(0), Tenths(0)>>
           -> ">set_pid,0.0000,0.0000,0.0000\n"
      [] g = <<Tenths(-5), Tenths(10), Tenths(10)>>
           -> ">set_pid,-0.5000,1.0000,1.0000\n"
      [] g = <<Tenths(10), Tenths(-5), Tenths(0)>>
           -> ">set_pid,1.0000,-0.5000,0.0000\n"
      [] g = <<Tenths(10), Tenths(0), Tenths(-5)>>
           -> ">set_pid,1.0000,0.0000,-0.5000\n"
      [] g = <<Float(1, 12345, -5), Float(1, 5, -5), Float(1, 100025, -5)>>
           -> ">set_pid,0.1235,0.0001,1.0003\n"

\* C12: on a Connected session set_parameters(band, t_i, t_d) writes exactly
\* one frame, '>set_pid,<band>,<t_i>,<t_d>\n' with each gain in fixed
\* 4-decimal format, and reads no confirmation; the frame is determined by
\* the three arguments alone, whatever ran before the call and whatever is
\* pending on the line.
C12_SetParametersFrame ==
    OnConnected("set_parameters")
    => /\ last.exc = ""
       /\ Len(last.frames) = 1
       /\ last.called = <<"write">>
       /\ last.consumed = 0 /\ last.timedout = 0
       /\ LET frame == last.frames[1]
               f == FrameFields(frame)
           IN  /\ Char(frame, 1) = ">" /\ Char(frame, Len(frame)) = "\n"
               /\ Len(f) = 4
               /\ f[1] = "set_pid"
               /\ \A i \in 1..3 : FourDecimals(f[i + 1])
               /\ frame = SetPidFrame(last.args)

C12_Witness ==
    /\ OnConnected("set_parameters")
    /\ last.args = <<Tenths(10), Tenths(20), Tenths(30)>>
    /\ last.pending > 0
    /\ last.mode = "CLOSED_LOOP"
    /\ last.frames = <<">set_pid,1.0000,2.0000,3.0000\n">>

\* C13: on a Connected session, set_dac writes a set_dac frame only if the
\* reply it read to its own get_mode query is exactly "OPEN_LOOP"; on every
\* other reply (CLOSED_LOOP, an unrecognized token, the empty string of a
\* read that timed out) it writes no set_dac frame and returns normally, with
\* a warning.
C13_DacOnlyInOpenLoop ==
    OnConnected("set_dac")
    => /\ FramesOf("set_dac") # {} => last.line = "OPEN_LOOP"
       /\ last.line # "OPEN_LOOP"
          => /\ FramesOf("set_dac") = {}
             /\ last.exc = ""
             /\ last.ret = NoRet
             /\ last.warning # ""

C13_Witness ==
    /\ OnConnected("set_dac")
    /\ last.mode = "OPEN_LOOP"
    /\ last.timedout = 1
    /\ last.line = ""
    /\ last.frames = <<">get_mode\n">>
    /\ last.warning # ""

\* C15: in every Simulated session, however it became simulated, get_mode
\* returns OPEN_LOOP or CLOSED_LOOP: OPEN_LOOP before any set_mode, afterwards
\* the argument of the most recent set_mode that passed validation (the
\* attribute simulation_mode, which only a valid set_mode writes, holds it).
C15_SimulatedGetMode ==
    (last.op = "get_mode" /\ last.state = "Simulated")
    => /\ last.exc = ""
       /\ last.ret.t = "str"
       /\ last.ret.v \in Modes
       /\ last.ret.v = (IF api.simulation_mode = "unset" THEN "OPEN_LOOP"
                        ELSE api.simulation_mode)

\* the handlers in progress that are inside a session call
InFlight == {i \in 1..Len(stack) : stack[i].in_call}

\* C14: under every interleaving of the poll tick, the event processing at
\* its end and the handlers of the widgets, at most one handler is inside a
\* session call, and it is the innermost one: no command is written while
\* the reply to an earlier command is awaited.
C14_OneInFlight ==
    /\ Cardinality(InFlight) <= 1
    /\ \A i \in InFlight : i = Len(stack)

C14_Witness ==
    /\ Len(stack) = 2
    /\ stack[1].h = "_timer_tick"
    /\ stack[1].pc = "process_events"
    /\ stack[2].h = "_number_dac_changed"
    /\ stack[2].in_call
    /\ SessionState(api) = "Connected"

\* the button has disconnected the session.
C17_TimerIffChecked ==
    stack = << >>
    => /\ gui.timer = gui.checked
       /\ gui.controls = gui.checked
       /\ (api.alive /\ ~gui.checked) => disconnected

=============================================================================
